---------------------------- MODULE Spec2Model ----------------------------
(***************************************************************************)
(* A model of projsearch: the best-result filter (output.py), the anytime  *)
(* optimiser loop (run.py, minimise_over_time) and the infidelity          *)
(* objective (run.py and target.py, target).                               *)
(*                                                                         *)
(* Python's None is the empty sequence and a present value v is <<v>>.     *)
(* Infidelities fed to the filter are integers 0..MaxVal (a fixed-point    *)
(* grid of the real values); the objective's value is a fraction num/den.  *)
(***************************************************************************)
EXTENDS Integers, Sequences, FiniteSets, TLC

\* ------------------------------------------------------------------ bounds
MaxVal == 2        \* values of OptimizeResult.fun are 0..MaxVal
MaxFeed == 3       \* outcomes fed to a filter on its own
MaxAttempts == 3   \* attempts of one minimise_over_time call
MaxLimit == 2      \* time_limit is 0..MaxLimit clock ticks
MaxStep == 1       \* clock ticks one step of an attempt may take
MaxBasis == 3      \* vectors of an orthonormal basis
PopUnits == 2      \* a population is a multiple of 1/PopUnits
MaxLabels == 2     \* labels of a target specification
MaxOrder == 1      \* pulse orders are -MaxOrder..MaxOrder
MaxPulses == 2     \* pulses of a sequence
Dim == 3           \* labels of the space a state lives in
MaxStmts == 4      \* statements of a stream
MaxLen == 3        \* the longest sequence a length command asks for
MaxArgs == 3       \* words after a command
MaxParams == 2     \* pairs of a param_list
MaxFuncs == 2      \* functions handed to compose in one place
MaxCalls == 2      \* calls of one composed function
MaxParts == 5      \* ';'-separated parts of a machine line

Values == 0..MaxVal

None == <<>>

Some(v) == <<v>>

Optional(S) == {None} \cup {Some(v) : v \in S}

\* A list, tuple or array with the given items, held as a tuple.
List(items) == items \o <<>>

\* An OptimizeResult: the attempt it came from, its value and its flag.
Outcome(x, fun, success) == [x |-> x, fun |-> fun, success |-> success]

VARIABLES
    \* filter_results
    compare,            \* the name of the compare function
    failure_callback,   \* TRUE when a failure callback was supplied
    initial_value,      \* the initial_value argument (None when omitted)
    best_value,         \* self.best_value
    calls,              \* one record per __call__: outcome, best before, fired
    \* minimise_over_time
    pc,                 \* position in the loop
    clock,              \* time.clock()
    start,              \* the local variable start
    time_limit,         \* the argument time_limit
    attempt_start,      \* the clock when the running attempt passed the test
    draws,              \* the number of calls of gen_init_params
    x0,                 \* the initial parameters drawn for the running attempt
    results,            \* the results of the minimisations, in order
    \* target
    nstates,            \* len(states)
    ground,             \* ground[i]: population of op * states[i] in the ground branch
    infid,              \* the value the objective returned (None before a call)
    \* prepare_parameters
    run_params,         \* the RunParameters: state, sequence (None when unused)
    ns,                 \* the truncation size computed (None before the call)
    levels,             \* motional levels the pulses applied so far can populate
    applied,            \* the number of pulses of the sequence applied
    \* linear_independent_set, orthonormal_basis
    state,              \* the input state: the amplitude of each label, in vector order
    lin_set,            \* what linear_independent_set returned (None before the call)
    basis,              \* what orthonormal_basis returned (None before the call)
    \* _maximums_generator, _make_random
    sidebands,          \* run_params.sequence: the orders of the pulses
    laser,              \* run_params.laser.rabi_mod(0, x) for each order x >= 0
    nperiods,           \* the nperiods argument (None when omitted)
    caller,             \* who built the maxima: "make_random" or "direct"
    rabi,               \* the table handed to _maximums_generator
    max,                \* self.max: the list of the maxima, or the KeyError
    sample,             \* the last vector the sampler returned
    gen,                \* a generator of maxima a caller steps by itself
    \* key_value_sets
    keys,               \* the set of keys a group must fill
    statements,         \* the statement stream: a sequence of key, value records
    consumed,           \* how many statements the for loop has taken
    params,             \* the accumulator: the pairs of the group being built
    yielded,            \* the groups yielded so far
    status,             \* "running", "suspended", "StopIteration", "ValueError"
    error,              \* which raise statement ended the generator
    \* sequence_length, _sequences_of_length
    length_args,        \* the words after the command: the args of sequence_length
    seq_status,         \* None before the call, then "running" or how it ended
    seq_out,            \* the strings the generator has yielded so far
    \* expand
    param_list,         \* the (param, spec) pairs handed to expand
    expand_status,      \* None before the call, then "map" or how it ended
    lines,              \* the lines the returned iterator has yielded so far
    \* compose
    compose_args,       \* the arguments of compose (None before the call)
    functions,          \* the `functions` the returned partial holds
    compose_calls,      \* one record per call of the returned function
    \* machine_line
    machine_str,        \* the line handed to machine_line, as its parts
    machine_result      \* None before the call, then what the call did

filter_vars == <<compare, failure_callback, initial_value, best_value, calls>>

loop_vars == <<pc, clock, start, time_limit, attempt_start, draws, x0, results>>

target_vars == <<nstates, ground, infid>>

prep_vars == <<run_params, ns, levels, applied>>

\* The variables of the other components.
basis_vars == <<state, lin_set, basis>>

sampler_vars ==
    <<sidebands, laser, nperiods, caller, rabi, max, sample, gen>>

parse_vars == <<keys, statements, consumed, params, yielded, status, error>>

seq_vars == <<length_args, seq_status, seq_out>>

expand_vars == <<param_list, expand_status, lines>>

compose_vars == <<compose_args, functions, compose_calls>>

machine_vars == <<machine_str, machine_result>>

ext_vars == <<prep_vars, basis_vars, sampler_vars, parse_vars, seq_vars,
              expand_vars, compose_vars, machine_vars>>

vars == <<filter_vars, loop_vars, target_vars, ext_vars>>

\* ------------------------------------------------------------ filter_results
Comparators == {"le", "lt", "ge"}

\* output.py:19, the default of the compare argument: lambda x, y: x <= y
DefaultCompare == "le"

Compare(cmp, x, y) ==
    CASE cmp = "le" -> x <= y
      [] cmp = "lt" -> x < y
      [] cmp = "ge" -> x >= y

\* A constructor that drops its initial_value argument.
InitBestValueDropped(initial) == None

\* __init__: self.best_value = initial_value
InitBestValue(initial) == initial

\* A __call__ without the test of the success flag.
FilterCallNoSuccessTest(best, cmp, has_failure, r) ==
    IF best = None \/ Compare(cmp, r.fun, best[1])
    THEN [best_value |-> Some(r.fun), fired |-> {"success_callback"}]
    ELSE IF has_failure
    THEN [best_value |-> best, fired |-> {"failure_callback"}]
    ELSE [best_value |-> best, fired |-> {}]

\* A __call__ whose success branch falls through to the failure callback.
FilterCallFallThrough(best, cmp, has_failure, r) ==
    IF ~r.success
    THEN [best_value |-> best, fired |-> {}]
    ELSE IF best = None \/ Compare(cmp, r.fun, best[1])
    THEN [best_value |-> Some(r.fun),
          fired |-> IF has_failure
                    THEN {"success_callback", "failure_callback"}
                    ELSE {"success_callback"}]
    ELSE IF has_failure
    THEN [best_value |-> best, fired |-> {"failure_callback"}]
    ELSE [best_value |-> best, fired |-> {}]

\* A __call__ that records every successful value as the best one.
FilterCallAlwaysRecord(best, cmp, has_failure, r) ==
    IF ~r.success
    THEN [best_value |-> best, fired |-> {}]
    ELSE IF best = None \/ Compare(cmp, r.fun, best[1])
    THEN [best_value |-> Some(r.fun), fired |-> {"success_callback"}]
    ELSE IF has_failure
    THEN [best_value |-> Some(r.fun), fired |-> {"failure_callback"}]
    ELSE [best_value |-> Some(r.fun), fired |-> {}]

\* __call__ as a function of the filter's state and the result: the new
\* best value and the set of callbacks invoked.
FilterCall(best, cmp, has_failure, r) ==
    IF ~r.success
    THEN [best_value |-> best, fired |-> {}]
    ELSE IF best = None \/ Compare(cmp, r.fun, best[1])
    THEN [best_value |-> Some(r.fun), fired |-> {"success_callback"}]
    ELSE IF has_failure
    THEN [best_value |-> best, fired |-> {"failure_callback"}]
    ELSE [best_value |-> best, fired |-> {}]

\* One call of the filter with result r.
Call(r) ==
    LET out == FilterCall(best_value, compare, failure_callback, r)
    IN  /\ best_value' = out.best_value
        /\ calls' = Append(calls, [outcome |-> r,
                                   best_before |-> best_value,
                                   best_after |-> out.best_value,
                                   fired |-> out.fired])
        /\ UNCHANGED <<compare, failure_callback, initial_value>>

FilterIdle ==
    /\ compare = DefaultCompare
    /\ failure_callback = FALSE
    /\ initial_value = None
    /\ best_value = None
    /\ calls = <<>>

LoopIdle ==
    /\ pc = "idle"
    /\ clock = 0
    /\ start = 0
    /\ time_limit = 0
    /\ attempt_start = 0
    /\ draws = 0
    /\ x0 = None
    /\ results = <<>>

TargetIdle ==
    /\ nstates = 0
    /\ ground = <<>>
    /\ infid = None

PrepIdle ==
    /\ run_params = None
    /\ ns = None
    /\ levels = {}
    /\ applied = 0

BasisIdle ==
    /\ state = None
    /\ lin_set = None
    /\ basis = None

SamplerIdle ==
    /\ sidebands = None
    /\ laser = None
    /\ nperiods = None
    /\ caller = None
    /\ rabi = None
    /\ max = None
    /\ sample = None
    /\ gen = None

ParseIdle ==
    /\ keys = None
    /\ statements = None
    /\ consumed = 0
    /\ params = None
    /\ yielded = None
    /\ status = None
    /\ error = None

SeqIdle ==
    /\ length_args = None
    /\ seq_status = None
    /\ seq_out = None

ExpandIdle ==
    /\ param_list = None
    /\ expand_status = None
    /\ lines = None

ComposeIdle ==
    /\ compose_args = None
    /\ functions = None
    /\ compose_calls = None

MachineIdle ==
    /\ machine_str = None
    /\ machine_result = None

ExtIdle ==
    /\ PrepIdle
    /\ BasisIdle
    /\ SamplerIdle
    /\ ParseIdle
    /\ SeqIdle
    /\ ExpandIdle
    /\ ComposeIdle
    /\ MachineIdle

\* A filter constructed with any arguments, then fed outcomes one by one.
InitFilter ==
    /\ compare \in Comparators
    /\ failure_callback \in BOOLEAN
    /\ initial_value \in Optional(Values)
    /\ best_value = InitBestValue(initial_value)
    /\ calls = <<>>
    /\ LoopIdle
    /\ TargetIdle
    /\ ExtIdle

Feed ==
    /\ Len(calls) < MaxFeed
    /\ \E fun \in Values, success \in BOOLEAN :
           Call(Outcome(Len(calls) + 1, fun, success))
    /\ UNCHANGED <<loop_vars, target_vars, ext_vars>>

NextFilter == Feed

SpecFilter == InitFilter /\ [][NextFilter]_vars

\* -------------------------------------------------------- minimise_over_time
\* A loop test that never fails.
LoopTestAlways(elapsed, limit) == TRUE

\* A loop test that lets an attempt start when the limit is just reached.
LoopTestInclusive(elapsed, limit) == elapsed <= limit

\* run.py:181, the loop test: time.clock() - start < time_limit
LoopTest(elapsed, limit) == elapsed < limit

\* A loop that tests its budget only after the first attempt.
FirstPcBody == "gen"

\* The statement after start = time.clock(): the while test.
FirstPc == "check"

\* A loop that forwards only the results that converged.
AfterMinimizeSkipFailed(r) == IF r.success THEN "callback" ELSE "check"

\* callback(scipy.optimize.minimize(...)): the result goes to the callback.
AfterMinimize(r) == "callback"

\* A loop that gives up at the first result that did not converge.
AfterCallbackStopOnFailure(r) == IF r.success THEN "check" ELSE "done"

\* After the callback returns the loop goes back to its test, whatever the
\* result was.
AfterCallback(r) == "check"

\* The call as single_sequence makes it: the callback is the filter that
\* file_filter builds (default compare, no initial value).
Init ==
    /\ compare = DefaultCompare
    /\ failure_callback \in BOOLEAN
    /\ initial_value = None
    /\ best_value = InitBestValue(initial_value)
    /\ calls = <<>>
    /\ pc = "start"
    /\ clock \in 0..MaxStep
    /\ start = 0
    /\ time_limit \in 0..MaxLimit
    /\ attempt_start = 0
    /\ draws = 0
    /\ x0 = None
    /\ results = <<>>
    /\ TargetIdle
    /\ ExtIdle

\* start = time.clock().  `clock` is the reading the next call of
\* time.clock() gives: the loop test reads the clock again, and time may have
\* passed since the reading kept in start.
Start ==
    /\ pc = "start"
    /\ start' = clock
    /\ \E d \in 0..MaxStep : clock' = clock + d
    /\ pc' = FirstPc
    /\ UNCHANGED <<time_limit, attempt_start, draws, x0, results>>
    /\ UNCHANGED <<filter_vars, target_vars, ext_vars>>

\* The while test passes: an attempt starts.
EnterLoop ==
    /\ pc = "check"
    /\ LoopTest(clock - start, time_limit)
    /\ draws < MaxAttempts
    /\ attempt_start' = clock
    /\ pc' = "gen"
    /\ UNCHANGED <<clock, start, time_limit, draws, x0, results>>
    /\ UNCHANGED <<filter_vars, target_vars, ext_vars>>

\* The while test fails: return.
Return ==
    /\ pc = "check"
    /\ ~LoopTest(clock - start, time_limit)
    /\ pc' = "done"
    /\ UNCHANGED <<clock, start, time_limit, attempt_start, draws, x0, results>>
    /\ UNCHANGED <<filter_vars, target_vars, ext_vars>>

\* gen_init_params(): a fresh vector, named by the number of the draw.
GenInitParams ==
    /\ pc = "gen"
    /\ draws' = draws + 1
    /\ x0' = Some(draws + 1)
    /\ \E d \in 0..MaxStep : clock' = clock + d
    /\ pc' = "minimize"
    /\ UNCHANGED <<start, time_limit, attempt_start, results>>
    /\ UNCHANGED <<filter_vars, target_vars, ext_vars>>

\* scipy.optimize.minimize(func, x0, method='bfgs', jac=True): any value, and
\* success is False when the solver did not converge.
Minimize ==
    /\ pc = "minimize"
    /\ \E fun \in Values, success \in BOOLEAN, d \in 0..MaxStep :
           LET r == Outcome(x0[1], fun, success)
           IN  /\ results' = Append(results, r)
               /\ clock' = clock + d
               /\ pc' = AfterMinimize(r)
    /\ UNCHANGED <<start, time_limit, attempt_start, draws, x0>>
    /\ UNCHANGED <<filter_vars, target_vars, ext_vars>>

\* callback(result), run to completion.
Callback ==
    /\ pc = "callback"
    /\ LET r == results[Len(results)]
       IN  /\ Call(r)
           /\ pc' = AfterCallback(r)
    /\ \E d \in 0..MaxStep : clock' = clock + d
    /\ UNCHANGED <<start, time_limit, attempt_start, draws, x0, results>>
    /\ UNCHANGED <<target_vars, ext_vars>>

Next ==
    \/ Start
    \/ EnterLoop
    \/ Return
    \/ GenInitParams
    \/ Minimize
    \/ Callback

Spec == Init /\ [][Next]_vars

\* The callback returns at a later clock reading than the one the attempt's
\* loop test took: the attempt advanced the clock by a positive amount.
TimedCallback == Callback /\ clock' > attempt_start

NextTimed ==
    \/ Start
    \/ EnterLoop
    \/ Return
    \/ GenInitParams
    \/ Minimize
    \/ TimedCallback

\* The loop with a clock that advances in every attempt.  The statements of
\* minimise_over_time itself always go on (the assignment of start, the loop
\* test and the return); gen_init_params, the minimisation and the callback
\* are calls that may never return, so no fairness is stated for them.
SpecTerminates ==
    /\ Init
    /\ [][NextTimed]_vars
    /\ WF_vars(Start)
    /\ WF_vars(EnterLoop)
    /\ WF_vars(Return)

\* ------------------------------------------------------------------- target
\* An objective that pairs states[0] with e_bra and the others with g_bra.
ProjectedSwapped(g, i) == IF i = 1 THEN PopUnits - g[i] ELSE g[i]

\* The population of op * states[i] that its projector keeps: g_bra for
\* states[0], e_bra for every other state.  op is unitary and the states are
\* unit vectors, so the two branches hold PopUnits between them.
Projected(g, i) == IF i = 1 THEN g[i] ELSE PopUnits - g[i]

\* infid = (g_bra * op * states[0]).norm() ** 2, then the loop adding
\* (e_bra * op * states[i + 1]).norm() ** 2
RECURSIVE InfidSum(_, _)
InfidSum(g, n) == IF n = 0 THEN 0 ELSE InfidSum(g, n - 1) + Projected(g, n)

\* run.py: scale = 1.0 / len(states)
Scale(n) == [num |-> 1, den |-> n]

\* run.py, target(run_params): func returns infid * scale (with or without
\* the derivative).  The value is num / den.
RunTarget(g, n) ==
    [num |-> InfidSum(g, n) * Scale(n).num, den |-> PopUnits * Scale(n).den]

\* target.py, target(states, sequence): func returns infid.
PyTarget(g, n) == [num |-> InfidSum(g, n), den |-> PopUnits]

\* A basis of 1..MaxBasis states and a parameter vector, which fix the
\* population op(params) leaves in each branch.
InitTarget ==
    /\ nstates \in 1..MaxBasis
    /\ ground \in [1..nstates -> 0..PopUnits]
    /\ infid = None
    /\ FilterIdle
    /\ LoopIdle
    /\ ExtIdle

CallRunTarget ==
    /\ \E with_derivative \in BOOLEAN :
           infid' = Some([module |-> "run.py", with_derivative |-> with_derivative,
                          value |-> RunTarget(ground, nstates)])
    /\ UNCHANGED <<nstates, ground, filter_vars, loop_vars, ext_vars>>

CallPyTarget ==
    /\ infid' = Some([module |-> "target.py", with_derivative |-> TRUE,
                      value |-> PyTarget(ground, nstates)])
    /\ UNCHANGED <<nstates, ground, filter_vars, loop_vars, ext_vars>>

NextTarget ==
    \/ CallRunTarget
    \/ CallPyTarget

SpecTarget == InitTarget /\ [][NextTarget]_vars

\* ------------------------------------------------------- prepare_parameters
\* A label is a string such as "g10": its branch letter, then the decimal
\* digits of its level.  These are the labels a target specification uses.
Labels == {<<"g", 0>>, <<"e", 2>>, <<"g", 9>>, <<"e", 1, 0>>}

Orders == (0 - MaxOrder)..MaxOrder

\* All sequences over S of length lo..hi.
SeqsOf(S, lo, hi) == UNION {[1..n -> S] : n \in lo..hi}

RECURSIVE IntOfDigits(_)
\* int(k[1:]) of a digit string
IntOfDigits(d) ==
    IF d = <<>> THEN 0
    ELSE 10 * IntOfDigits(SubSeq(d, 1, Len(d) - 1)) + d[Len(d)]

\* lambda k: int(k[1:])
LevelOf(label) == IntOfDigits(Tail(label))

\* run_params.state.items() or list(run_params.state): the (label,
\* amplitude) pairs in order.
Pairs(rp) == rp.state

RECURSIVE MaxByLevel(_)
\* max(labels, key=...): the first label of the highest level
MaxByLevel(labels) ==
    IF Len(labels) = 1 THEN labels[1]
    ELSE LET m == MaxByLevel(SubSeq(labels, 1, Len(labels) - 1))
             l == labels[Len(labels)]
         IN  IF LevelOf(l) > LevelOf(m) THEN l ELSE m

Abs(x) == IF x < 0 THEN 0 - x ELSE x

RECURSIVE SumSigned(_)
\* A sum of the orders without np.abs.
SumSigned(seq) == IF seq = <<>> THEN 0 ELSE seq[1] + SumSigned(Tail(seq))

RECURSIVE SumAbs(_)
\* sum(map(np.abs, run_params.sequence))
SumAbs(seq) == IF seq = <<>> THEN 0 ELSE Abs(seq[1]) + SumAbs(Tail(seq))

\* A truncation size that adds the orders with their signs.
TruncationSizeSigned(rp) ==
    LET labels == [i \in 1..Len(Pairs(rp)) |-> Pairs(rp)[i][1]]
    IN  1 + LevelOf(MaxByLevel(labels)) + SumSigned(rp.sequence)

\* ns = 1 + int(max(map(lambda t: t[0], pairs), key=...)[1:]); ns += sum(...)
TruncationSize(rp) ==
    LET labels == [i \in 1..Len(Pairs(rp)) |-> Pairs(rp)[i][1]]
    IN  1 + LevelOf(MaxByLevel(labels)) + SumAbs(rp.sequence)

\* A sideband of order o moves population by |o| motional levels, up or down.
AfterPulse(ls, o) ==
    ls \cup {l + Abs(o) : l \in ls} \cup {l - Abs(o) : l \in {m \in ls : m >= Abs(o)}}

\* Run parameters whose state is a dict (distinct labels) or a list of pairs.
InitPrepare ==
    /\ \E is_dict \in BOOLEAN,
          labels \in SeqsOf(Labels, 1, MaxLabels),
          sequence \in SeqsOf(Orders, 0, MaxPulses) :
           /\ is_dict => \A i, j \in 1..Len(labels) : labels[i] = labels[j] => i = j
           /\ run_params = Some([state |-> [i \in 1..Len(labels) |-> <<labels[i], 1>>],
                                 is_dict |-> is_dict,
                                 sequence |-> sequence])
    /\ ns = None
    /\ levels = {}
    /\ applied = 0
    /\ FilterIdle
    /\ LoopIdle
    /\ TargetIdle
    /\ BasisIdle
    /\ SamplerIdle
    /\ ParseIdle
    /\ SeqIdle
    /\ ExpandIdle
    /\ ComposeIdle
    /\ MachineIdle

\* prepare_parameters(run_params) up to start_state: the target populates the
\* levels of its labels.
PrepareParameters ==
    /\ ns = None
    /\ ns' = Some(TruncationSize(run_params[1]))
    /\ levels' = {LevelOf(Pairs(run_params[1])[i][1]) :
                      i \in 1..Len(Pairs(run_params[1]))}
    /\ UNCHANGED <<run_params, applied>>
    /\ UNCHANGED <<filter_vars, loop_vars, target_vars, basis_vars, sampler_vars,
                   parse_vars, seq_vars, expand_vars,
                   compose_vars, machine_vars>>

\* The next sideband of the sequence acts on the state.
ApplyPulse ==
    /\ ns # None
    /\ applied < Len(run_params[1].sequence)
    /\ applied' = applied + 1
    /\ levels' = AfterPulse(levels, run_params[1].sequence[applied + 1])
    /\ UNCHANGED <<run_params, ns>>
    /\ UNCHANGED <<filter_vars, loop_vars, target_vars, basis_vars, sampler_vars,
                   parse_vars, seq_vars, expand_vars,
                   compose_vars, machine_vars>>

NextPrepare ==
    \/ PrepareParameters
    \/ ApplyPulse

SpecPrepare == InitPrepare /\ [][NextPrepare]_vars

\* ------------------------------- linear_independent_set, orthonormal_basis
\* A complex number is <<re, im>>; a vector is a sequence of complex numbers.
CZero == <<0, 0>>

COne == <<1, 0>>

CAdd(a, b) == <<a[1] + b[1], a[2] + b[2]>>

CSub(a, b) == <<a[1] - b[1], a[2] - b[2]>>

CMul(a, b) == <<a[1] * b[1] - a[2] * b[2], a[1] * b[2] + a[2] * b[1]>>

CConj(a) == <<a[1], 0 - a[2]>>

RECURSIVE InnerUpTo(_, _, _)
InnerUpTo(a, b, n) ==
    IF n = 0 THEN CZero
    ELSE CAdd(InnerUpTo(a, b, n - 1), CMul(CConj(a[n]), b[n]))

\* a.dag() * b
Inner(a, b) == InnerUpTo(a, b, Len(a))

\* The amplitudes a label of the input state may have.
Amplitudes == {CZero, COne, <<0, 1>>, <<1, -1>>}

\* it.state.populated_elements(state): the populated (element, value)
\* entries, in vector order.
RECURSIVE PopulatedUpTo(_, _)
PopulatedUpTo(s, n) ==
    IF n = 0 THEN <<>>
    ELSE IF s[n] = CZero THEN PopulatedUpTo(s, n - 1)
    ELSE Append(PopulatedUpTo(s, n - 1), [element |-> n, value |-> s[n]])

PopulatedElements(s) == PopulatedUpTo(s, Len(s))

\* _named_field(array, field)
NamedField(array, field) ==
    List([i \in 1..Len(array) |-> array[i][field]])

\* The square of the norm of a sequence of amplitudes.
NormSq(a) == Inner(a, a)[1]

\* A ket that a function builds is [amps, norm2]: the vector of the
\* amplitudes amps over the square root of norm2.  Its norm is 1 when
\* NormSq(amps) = norm2.
\* it.state.create({el: 1}, ns=ns): the normalised state of one element.
Elementary(el, n) ==
    [amps |-> List([i \in 1..n |-> IF i = el THEN COne ELSE CZero]),
     norm2 |-> 1]

\* it.state.create(zip(els, vec), ns=ns): the state with the components of
\* vec at the elements els, normalised.
Create(els, vec, n) ==
    LET amps == List([i \in 1..n |->
                         IF \E m \in 1..Len(els) : els[m] = i
                         THEN vec.amps[CHOOSE m \in 1..Len(els) : els[m] = i]
                         ELSE CZero])
    IN  [amps |-> amps, norm2 |-> NormSq(amps)]

\* it.state.element(ket, els): the amplitudes of ket at the elements els.
\* The kets it is given are those of linear_independent_set, of norm2 = 1.
Element(ket, els) == List([m \in 1..Len(els) |-> ket.amps[els[m]]])

\* A set with one vector for every populated element.
LinearIndependentSetAll(s) ==
    LET els == NamedField(PopulatedElements(s), "element")
    IN  [j \in 1..Len(els) |-> Elementary(els[j], Len(s))]

\* linear_independent_set(state): one elementary vector for each element of
\* populated[1:].
LinearIndependentSet(s) ==
    LET els == NamedField(Tail(PopulatedElements(s)), "element")
    IN  [j \in 1..Len(els) |-> Elementary(els[j], Len(s))]

\* u made orthogonal to q, without division: <q,q> u - <q,u> q
Reduce(u, q) ==
    LET qq == Inner(q, q)
        qu == Inner(q, u)
    IN  List([m \in 1..Len(u) |-> CSub(CMul(qq, u[m]), CMul(qu, q[m]))])

RECURSIVE Gcd(_, _)
Gcd(a, b) == IF b = 0 THEN a ELSE Gcd(b, a % b)

RECURSIVE GcdUpTo(_, _)
GcdUpTo(v, n) ==
    IF n = 0 THEN 0
    ELSE Gcd(Gcd(GcdUpTo(v, n - 1), Abs(v[n][1])), Abs(v[n][2]))

\* The same direction with the common integer factor of the components
\* taken out: the unit vector of a column does not depend on its length.
Primitive(v) ==
    LET g == GcdUpTo(v, Len(v))
    IN  IF g = 0 THEN v
        ELSE List([m \in 1..Len(v) |-> <<v[m][1] \div g, v[m][2] \div g>>])

RECURSIVE ReduceAll(_, _, _)
ReduceAll(u, qs, n) ==
    IF n = 0 THEN u
    ELSE Primitive(Reduce(ReduceAll(u, qs, n - 1), qs[n]))

RECURSIVE QrUpTo(_, _)
QrUpTo(cols, n) ==
    IF n = 0 THEN <<>>
    ELSE LET qs == QrUpTo(cols, n - 1)
         IN  Append(qs, ReduceAll(cols[n], qs, n - 1))

\* A decomposition that returns the columns as they came.
QrColumnsAsGiven(cols, rounded) ==
    List([j \in 1..Len(cols) |-> [amps |-> cols[j], norm2 |-> 1]])

Neg(v) == List([m \in 1..Len(v) |-> CSub(CZero, v[m])])

\* The sign of the diagonal entry of R in column j.  scipy.linalg.qr calls
\* LAPACK's geqrf, which takes the columns in turn and reflects what is left
\* of each onto a real multiple beta of a unit vector, with the sign of beta
\* opposite to that of the real part of the entry alpha it replaces; when
\* nothing is left below an alpha whose imaginary part is 0.0 the reflection
\* is the identity and alpha stays.  For the matrix orthonormal_basis builds
\* (the values, then elementary columns) alpha is the first value in column 1
\* and has a positive real part in the later columns.  At the last column
\* alpha is real exactly when the first value is real.  Its imaginary part
\* is then computed as 0.0 when every value is real or imaginary, each
\* product having one term.  When a value has both parts (`mixed`) it is a
\* difference of equal products: 0.0 in a build that rounds each product, a
\* rounding error in a build that fuses a product with the subtraction, and
\* then the column is reflected.  `rounded` tells which build it is.
QrSign(cols, j, rounded) ==
    LET first == cols[1][1]
        mixed == \E m \in 1..Len(cols[1]) :
                     cols[1][m][1] # 0 /\ cols[1][m][2] # 0
        identity == /\ j = Len(cols)
                    /\ first[2] = 0
                    /\ ~(rounded /\ mixed)
        alpha == IF j = 1 THEN first[1] ELSE 1
    IN  IF identity THEN (IF alpha < 0 THEN 0 - 1 ELSE 1)
        ELSE IF alpha < 0 THEN 1 ELSE 0 - 1

\* scipy.linalg.qr(matrix)[0]: the columns of Q, each the matrix's column
\* made orthogonal to the columns before it and divided by its norm, with
\* the sign that makes the diagonal of R what geqrf makes it.
QrColumns(cols, rounded) ==
    LET gs == QrUpTo(cols, Len(cols))
    IN  List([j \in 1..Len(cols) |->
                 [amps |-> IF QrSign(cols, j, rounded) < 0
                           THEN Neg(gs[j]) ELSE gs[j],
                  norm2 |-> NormSq(gs[j])]])

\* state.unit()
Unit(s) == [amps |-> s, norm2 |-> NormSq(s)]

\* The square of |a.dag() * b| for two kets, as a fraction.
OverlapSq(a, b) ==
    LET ab == Inner(a.amps, b.amps)
    IN  [num |-> CMul(CConj(ab), ab)[1], den |-> a.norm2 * b.norm2]

\* assert abs(... - 1) < 1e-8
ToleranceInv == 100000000

\* abs(x - 1) < 1e-8 for the x >= 0 whose square is num / den, with T for
\* ToleranceInv: num T^2 < den (T + 1)^2 when num >= den, and
\* num T^2 > den (T - 1)^2 when num < den.  With diff = |num - den| and
\* den = q T + r both are diff T^2 < 2 q T^2 + m T + c, where m = 2 r + q,
\* c = r in the first case and m = 2 r - q, c = -r in the second.  The
\* right-hand side is written as whole T^2 + rest with 0 <= rest < T^2, so
\* that no product leaves the range of the integers.
WithinTolerance(num, den) ==
    /\ den > 0
    /\ LET T == ToleranceInv
           q == den \div T
           r == den % T
           diff == Abs(num - den)
           above == num >= den
           m == IF above THEN 2 * r + q
                ELSE IF r = 0 THEN 2 * r - q ELSE 2 * r - q - 1
           whole == 2 * q + (m \div T)
           rest == (m % T) # 0 \/ r # 0
       IN  diff < whole \/ (diff = whole /\ rest)

\* abs((state.unit().dag() * out[0]).norm() - 1) < 1e-8: the test of the
\* assert.
Aligned(s, ket) ==
    LET o == OverlapSq(Unit(s), ket)
    IN  WithinTolerance(o.num, o.den)

\* orthonormal_basis(state), up to the assert: the array `out`.
BasisOut(s, rounded) ==
    LET populated == PopulatedElements(s)
        els == NamedField(populated, "element")
        values == NamedField(populated, "value")
        lis == LinearIndependentSet(s)
        others == [j \in 1..Len(lis) |-> Element(lis[j], els)]
        q == QrColumns(<<values>> \o others, rounded)
        vecs == [j \in 1..Len(q) |->
                    [amps |-> Neg(q[j].amps), norm2 |-> q[j].norm2]]
    IN  [j \in 1..Len(vecs) |-> Create(els, vecs[j], Len(s))]

\* orthonormal_basis(state): <<"return", out>>, or the assertion's failure.
OrthonormalBasis(s, rounded) ==
    LET out == BasisOut(s, rounded)
    IN  IF Aligned(s, out[1]) THEN <<"return", out>>
        ELSE <<"AssertionError">>

\* A state with at least one populated label.
InitBasis ==
    /\ state \in {Some(s) : s \in {t \in [1..Dim -> Amplitudes] :
                                    \E i \in 1..Dim : t[i] # CZero}}
    /\ lin_set = None
    /\ basis = None
    /\ FilterIdle
    /\ LoopIdle
    /\ TargetIdle
    /\ PrepIdle
    /\ SamplerIdle
    /\ ParseIdle
    /\ SeqIdle
    /\ ExpandIdle
    /\ ComposeIdle
    /\ MachineIdle

CallLinearIndependentSet ==
    /\ lin_set = None
    /\ lin_set' = Some(LinearIndependentSet(state[1]))
    /\ UNCHANGED <<state, basis>>
    /\ UNCHANGED <<filter_vars, loop_vars, target_vars, prep_vars, sampler_vars,
                   parse_vars, seq_vars, expand_vars,
                   compose_vars, machine_vars>>

CallOrthonormalBasis ==
    /\ basis = None
    /\ \E rounded \in BOOLEAN :
           basis' = OrthonormalBasis(state[1], rounded)
    /\ UNCHANGED <<state, lin_set>>
    /\ UNCHANGED <<filter_vars, loop_vars, target_vars, prep_vars, sampler_vars,
                   parse_vars, seq_vars, expand_vars,
                   compose_vars, machine_vars>>

NextBasis ==
    \/ CallLinearIndependentSet
    \/ CallOrthonormalBasis

SpecBasis == InitBasis /\ [][NextBasis]_vars

\* --------------------------------------- _maximums_generator, _make_random
\* Durations and phases are exact fractions [num, den] in units of 2 pi.
\* def __init__(self, run_params, nperiods=3)
DefaultNPeriods == 3

\* The nperiods arguments tried: omitted, or given.
NPeriodsArgs == {None, Some(1), Some(2)}

\* The Rabi frequencies a laser may give the (0, x) couplings.
Lasers == {[x \in 0..MaxOrder |-> 1], [x \in 0..MaxOrder |-> x + 1]}

\* The value of the nperiods parameter inside __init__.
NPeriods(arg) == IF arg = None THEN DefaultNPeriods ELSE arg[1]

\* A table built from the orders as they stand in the sequence.
RabiTableSigned(sequence, las) ==
    [x \in {sequence[i] : i \in 1..Len(sequence)} |-> las[Abs(x)]]

\* orders = set(map(abs, run_params.sequence))
\* rabi = dict([(x, run_params.laser.rabi_mod(0, x)) for x in orders])
RabiTable(sequence, las) ==
    [x \in {Abs(sequence[i]) : i \in 1..Len(sequence)} |-> las[x]]

\* A generator that yields the phase's maximum before the duration's.
MaximumsPhaseFirst(sequence, table, np) ==
    IF \E i \in 1..Len(sequence) : Abs(sequence[i]) \notin DOMAIN table
    THEN <<"KeyError">>
    ELSE <<"list",
           [m \in 1..(2 * Len(sequence)) |->
               IF m % 2 = 0
               THEN [num |-> np, den |-> table[Abs(sequence[m \div 2])]]
               ELSE [num |-> 1, den |-> 1]]>>

\* list(_maximums_generator(sequence, rabi, nperiods)): for each sideband the
\* maximum of its duration and then of its phase; the lookup of a missing
\* order raises KeyError and no list is built.
Maximums(sequence, table, np) ==
    IF \E i \in 1..Len(sequence) : Abs(sequence[i]) \notin DOMAIN table
    THEN <<"KeyError">>
    ELSE <<"list",
           [m \in 1..(2 * Len(sequence)) |->
               IF m % 2 = 1
               THEN [num |-> np, den |-> table[Abs(sequence[(m + 1) \div 2])]]
               ELSE [num |-> 1, den |-> 1]]>>

\* The n-th next() of _maximums_generator(sequence, table, np): the pass of
\* the loop it is in looks its sideband up in the table as the table is then.
NextMaximum(sequence, table, np, n) ==
    IF n > 2 * Len(sequence) THEN <<"StopIteration">>
    ELSE IF n % 2 = 0 THEN <<"yield", [num |-> 1, den |-> 1]>>
    ELSE IF Abs(sequence[(n + 1) \div 2]) \notin DOMAIN table
    THEN <<"KeyError">>
    ELSE <<"yield",
           [num |-> np, den |-> table[Abs(sequence[(n + 1) \div 2])]]>>

\* The points of [0, 1) a uniform draw is taken from.
UnitPoints == {[num |-> 0, den |-> 1], [num |-> 1, den |-> 2]}

\* np.random.uniform(0.0, max): a point u of [0, 1) times max.
Uniform(u, mx) == [num |-> u.num * mx.num, den |-> u.den * mx.den]

InitSampler ==
    /\ sidebands \in {Some(s) : s \in SeqsOf(Orders, 0, MaxPulses)}
    /\ laser \in {Some(l) : l \in Lasers}
    /\ nperiods \in NPeriodsArgs
    /\ caller = None
    /\ rabi = None
    /\ max = None
    /\ sample = None
    /\ gen = None
    /\ FilterIdle
    /\ LoopIdle
    /\ TargetIdle
    /\ PrepIdle
    /\ BasisIdle
    /\ ParseIdle
    /\ SeqIdle
    /\ ExpandIdle
    /\ ComposeIdle
    /\ MachineIdle

\* _make_random(run_params, nperiods): the generator is made and consumed by
\* list() in one expression, and the table is a local of __init__.
MakeRandom ==
    /\ max = None
    /\ gen = None
    /\ caller' = Some("make_random")
    /\ rabi' = Some(RabiTable(sidebands[1], laser[1]))
    /\ max' = Maximums(sidebands[1], RabiTable(sidebands[1], laser[1]),
                       NPeriods(nperiods))
    /\ UNCHANGED <<sidebands, laser, nperiods, sample, gen>>
    /\ UNCHANGED <<filter_vars, loop_vars, target_vars, prep_vars, basis_vars,
                   parse_vars, seq_vars, expand_vars,
                   compose_vars, machine_vars>>

\* _maximums_generator(sequence, rabi, nperiods) with a table the caller
\* supplies, the laser's values for some of the orders: the call returns a
\* generator and runs none of the body.
CallMaximumsGenerator ==
    /\ max = None
    /\ gen = None
    /\ \E known \in SUBSET (0..MaxOrder) :
        rabi' = Some([x \in known |-> laser[1][x]])
    /\ caller' = Some("direct")
    /\ gen' = Some([status |-> "created", yielded |-> <<>>])
    /\ UNCHANGED <<sidebands, laser, nperiods, max, sample>>
    /\ UNCHANGED <<filter_vars, loop_vars, target_vars, prep_vars, basis_vars,
                   parse_vars, seq_vars, expand_vars,
                   compose_vars, machine_vars>>

\* next(generator): the body runs to its next yield, to the KeyError of a
\* lookup or to its end.
StepMaximumsGenerator ==
    /\ gen # None
    /\ gen[1].status \in {"created", "suspended"}
    /\ LET r == NextMaximum(sidebands[1], rabi[1], NPeriods(nperiods),
                            Len(gen[1].yielded) + 1)
       IN  gen' = IF r[1] = "yield"
                  THEN Some([status |-> "suspended",
                             yielded |-> Append(gen[1].yielded, r[2])])
                  ELSE Some([status |-> r[1], yielded |-> gen[1].yielded])
    /\ UNCHANGED <<sidebands, laser, nperiods, caller, rabi, max, sample>>
    /\ UNCHANGED <<filter_vars, loop_vars, target_vars, prep_vars, basis_vars,
                   parse_vars, seq_vars, expand_vars,
                   compose_vars, machine_vars>>

\* The caller puts an entry into its table while the generator has not
\* ended: the table is the caller's dictionary, not a copy.
SetCoupling ==
    /\ gen # None
    /\ gen[1].status \in {"created", "suspended"}
    /\ \E x \in (0..MaxOrder) \ DOMAIN rabi[1] :
        rabi' = Some([y \in DOMAIN rabi[1] \cup {x} |-> laser[1][y]])
    /\ UNCHANGED <<sidebands, laser, nperiods, caller, max, sample, gen>>
    /\ UNCHANGED <<filter_vars, loop_vars, target_vars, prep_vars, basis_vars,
                   parse_vars, seq_vars, expand_vars,
                   compose_vars, machine_vars>>

\* _make_random.__call__(): one draw for each maximum.  A call reads self.max
\* and nothing else, so every later call has the outcomes of the first.
DrawSample ==
    /\ sample = None
    /\ max # None
    /\ max[1] = "list"
    /\ \E u \in [1..Len(max[2]) -> UnitPoints] :
        sample' = Some([m \in 1..Len(max[2]) |-> Uniform(u[m], max[2][m])])
    /\ UNCHANGED <<sidebands, laser, nperiods, caller, rabi, max, gen>>
    /\ UNCHANGED <<filter_vars, loop_vars, target_vars, prep_vars, basis_vars,
                   parse_vars, seq_vars, expand_vars,
                   compose_vars, machine_vars>>

NextSampler ==
    \/ MakeRandom
    \/ CallMaximumsGenerator
    \/ StepMaximumsGenerator
    \/ SetCoupling
    \/ DrawSample

SpecSampler == InitSampler /\ [][NextSampler]_vars

\* ------------------------------------------------------------ key_value_sets
\* The keys a caller may ask for, and the keys a statement may carry.
KeyNames == {"state", "sequence"}

StmtKeys == KeyNames \cup {"colour"}

StmtValues == {"a", "b"}

\* The dictionaries key_value_statements yields, without the fields only the
\* messages use.
Stmts == [key : StmtKeys, value : StmtValues]

\* set(map(lambda t: t[0], params))
KeysOf(pairs) == {pairs[i][1] : i \in 1..Len(pairs)}

\* The body of the for loop on one statement, up to the yield: the raise
\* statement reached ("" for none), the accumulator and the group yielded.
\* The group yielded is the accumulator itself.
LoopBody(ks, acc, stmt) ==
    IF \E i \in 1..Len(acc) : acc[i][1] = stmt.key
    THEN [raise |-> "duplicate", params |-> acc, yield |-> None]
    ELSE IF stmt.key \notin ks
    THEN [raise |-> "unknown", params |-> acc, yield |-> None]
    ELSE LET appended == Append(acc, <<stmt.key, stmt.value>>)
         IN  IF KeysOf(appended) = ks
             THEN [raise |-> "", params |-> appended, yield |-> Some(appended)]
             ELSE [raise |-> "", params |-> appended, yield |-> None]

\* A generator that keeps its accumulator when it is resumed.
AfterYieldKeep(acc) == acc

\* params = [] after the yield: a new, empty accumulator.
AfterYield(acc) == <<>>

\* An end of the stream that never raises.
AfterLoopSilent(acc) == ""

\* After the loop: the raise statement reached ("" for none).
AfterLoop(acc) == IF Len(acc) # 0 THEN "eof" ELSE ""

\* key_value_sets(keys, statements) up to the for loop.
InitParse ==
    /\ keys \in SUBSET KeyNames
    /\ statements \in SeqsOf(Stmts, 0, MaxStmts)
    /\ consumed = 0
    /\ params = <<>>
    /\ yielded = <<>>
    /\ status = "running"
    /\ error = ""
    /\ FilterIdle
    /\ LoopIdle
    /\ TargetIdle
    /\ PrepIdle
    /\ BasisIdle
    /\ SamplerIdle
    /\ SeqIdle
    /\ ExpandIdle
    /\ ComposeIdle
    /\ MachineIdle

\* One pass of the for loop, as far as its raise, its yield or its end.  At
\* the yield the generator is suspended and its consumer has the group.
TakeStatement ==
    /\ status = "running"
    /\ consumed < Len(statements)
    /\ LET r == LoopBody(keys, params, statements[consumed + 1])
       IN  /\ consumed' = consumed + 1
           /\ params' = r.params
           /\ yielded' = IF r.yield = None THEN yielded
                         ELSE Append(yielded, r.yield[1])
           /\ error' = r.raise
           /\ status' = IF r.raise # "" THEN "ValueError"
                        ELSE IF r.yield # None THEN "suspended"
                        ELSE "running"
    /\ UNCHANGED <<keys, statements>>
    /\ UNCHANGED <<filter_vars, loop_vars, target_vars, prep_vars, basis_vars,
                   sampler_vars, seq_vars, expand_vars,
                   compose_vars, machine_vars>>

\* The consumer asks for the next group: the generator goes on after the
\* yield.  A consumer that takes one group and drops the generator, as
\* next_run_parameters does, never does this.
Resume ==
    /\ status = "suspended"
    /\ params' = AfterYield(params)
    /\ status' = "running"
    /\ UNCHANGED <<keys, statements, consumed, yielded, error>>
    /\ UNCHANGED <<filter_vars, loop_vars, target_vars, prep_vars, basis_vars,
                   sampler_vars, seq_vars, expand_vars,
                   compose_vars, machine_vars>>

\* The statements run out: the check after the loop, and the generator ends.
EndOfStatements ==
    /\ status = "running"
    /\ consumed = Len(statements)
    /\ error' = AfterLoop(params)
    /\ status' = IF AfterLoop(params) = "" THEN "StopIteration"
                 ELSE "ValueError"
    /\ UNCHANGED <<keys, statements, consumed, params, yielded>>
    /\ UNCHANGED <<filter_vars, loop_vars, target_vars, prep_vars, basis_vars,
                   sampler_vars, seq_vars, expand_vars,
                   compose_vars, machine_vars>>

NextParse ==
    \/ TakeStatement
    \/ Resume
    \/ EndOfStatements

SpecParse == InitParse /\ [][NextParse]_vars

\* --------------------------------------- sequence_length, _sequences_of_length
\* The words that may follow the command: integer literals, and one that is
\* not an integer.
ArgWords == {ToString(n) : n \in (0 - 1)..MaxLen} \cup {"x"}

\* int(word): the integer whose literal the word is (None: int raises).
IntOf(word) ==
    IF \E n \in (0 - 1)..MaxLen : ToString(n) = word
    THEN Some(CHOOSE n \in (0 - 1)..MaxLen : ToString(n) = word)
    ELSE None

\* itertools.product([0, -1, 1], repeat=nsides) for nsides >= 0: the last
\* position varies fastest.
SidebandPool == <<0, -1, 1>>

RECURSIVE Product3(_)
Product3(nsides) ==
    IF nsides = 0 THEN << <<>> >>
    ELSE LET shorter == Product3(nsides - 1)
         IN  List([m \in 1..(3 * Len(shorter)) |->
                      Append(shorter[((m - 1) \div 3) + 1],
                             SidebandPool[((m - 1) % 3) + 1])])

\* tuples(orders, 2): the overlapping pairs of successive values.
Tuples(orders) ==
    List([i \in 1..(Len(orders) - 1) |-> <<orders[i], orders[i + 1]>>])

\* allowed(orders)
Allowed(orders) ==
    ~ \E i \in 1..Len(Tuples(orders)) :
        Tuples(orders)[i][1] = Tuples(orders)[i][2]

\* possibles(nsides), for nsides >= 0
Possibles(nsides) == SelectSeq(Product3(nsides), Allowed)

\* lengths = [start] if stop is None else range(start, stop + 1)
Lengths(args) ==
    IF Len(args) = 1 THEN <<args[1]>>
    ELSE List([i \in 1..(IF args[2] >= args[1] THEN args[2] - args[1] + 1
                         ELSE 0) |-> args[1] + i - 1])

\* itertools.chain.from_iterable(map(possibles, lengths)) over the first m
\* lengths: what it yields, and the error that ends it.  itertools.product
\* raises ValueError for a negative repeat when the chain reaches it.
RECURSIVE ChainUpTo(_, _)
ChainUpTo(lengths, m) ==
    IF m = 0 THEN [items |-> <<>>, raise |-> ""]
    ELSE LET before == ChainUpTo(lengths, m - 1)
         IN  IF before.raise # "" THEN before
             ELSE IF lengths[m] < 0
             THEN [items |-> before.items, raise |-> "ValueError"]
             ELSE [items |-> before.items \o Possibles(lengths[m]),
                   raise |-> ""]

\* ",".join(map(str, seq))
RECURSIVE JoinOrders(_, _)
JoinOrders(seq, n) ==
    IF n = 0 THEN ""
    ELSE IF n = 1 THEN ToString(seq[1])
    ELSE JoinOrders(seq, n - 1) \o "," \o ToString(seq[n])

\* types.string.sequence(seq)
StringSequence(seq) == "[" \o JoinOrders(seq, Len(seq)) \o "]"

\* _sequences_of_length(start, stop): the strings the generator yields in
\* order, and the error that ends it ("" when it ends by itself).
SequencesOfLength(args) ==
    LET chain == ChainUpTo(Lengths(args), Len(Lengths(args)))
    IN  [items |-> List([i \in 1..Len(chain.items) |->
                             StringSequence(chain.items[i])]),
         raise |-> chain.raise]

\* sequence_length(args) up to its return: TRUE when it raises TypeError (more
\* than two words, no word, or a word int cannot read).
SequenceLengthRaises(words) ==
    \/ Len(words) > 2
    \/ Len(words) = 0
    \/ \E i \in 1..Len(words) : IntOf(words[i]) = None

\* map(int, args)
IntArgs(words) == List([i \in 1..Len(words) |-> IntOf(words[i])[1]])

InitSequences ==
    /\ length_args \in {Some(w) : w \in SeqsOf(ArgWords, 0, MaxArgs)}
    /\ seq_status = None
    /\ seq_out = <<>>
    /\ FilterIdle
    /\ LoopIdle
    /\ TargetIdle
    /\ PrepIdle
    /\ BasisIdle
    /\ SamplerIdle
    /\ ParseIdle
    /\ ExpandIdle
    /\ ComposeIdle
    /\ MachineIdle

\* sequence_length(args)
CallSequenceLength ==
    /\ seq_status = None
    /\ seq_status' = IF SequenceLengthRaises(length_args[1])
                     THEN Some("TypeError") ELSE Some("running")
    /\ UNCHANGED <<length_args, seq_out>>
    /\ UNCHANGED <<filter_vars, loop_vars, target_vars, prep_vars, basis_vars,
                   sampler_vars, parse_vars, expand_vars,
                   compose_vars, machine_vars>>

\* next() on the generator sequence_length returned.
NextSequence ==
    /\ seq_status = Some("running")
    /\ LET r == SequencesOfLength(IntArgs(length_args[1]))
       IN  IF Len(seq_out) < Len(r.items)
           THEN /\ seq_out' = Append(seq_out, r.items[Len(seq_out) + 1])
                /\ UNCHANGED seq_status
           ELSE /\ seq_status' = IF r.raise = "" THEN Some("StopIteration")
                                 ELSE Some(r.raise)
                /\ UNCHANGED seq_out
    /\ UNCHANGED length_args
    /\ UNCHANGED <<filter_vars, loop_vars, target_vars, prep_vars, basis_vars,
                   sampler_vars, parse_vars, expand_vars,
                   compose_vars, machine_vars>>

NextSequences ==
    \/ CallSequenceLength
    \/ NextSequence

SpecSequences == InitSequences /\ [][NextSequences]_vars

\* ------------------------------------------------- _make_generator, expand
\* A specifier is the record of its text: whether it starts with '!', and its
\* words (the whole text for a specifier that is not a command).
\* A sequence as a user writes it: "[0, 1]".
RECURSIVE JoinSpaced(_, _)
JoinSpaced(seq, n) ==
    IF n = 0 THEN ""
    ELSE IF n = 1 THEN ToString(seq[1])
    ELSE JoinSpaced(seq, n - 1) \o ", " \o ToString(seq[n])

UserSequence(seq) == "[" \o JoinSpaced(seq, Len(seq)) \o "]"

\* The sequences a text may denote.
SampleSeqs == SeqsOf({0, -1, 1}, 0, 2)

\* types.sequence(str): the list the text is a literal of (None: ValueError).
ParseSequence(text) ==
    IF \E seq \in SampleSeqs :
        UserSequence(seq) = text \/ StringSequence(seq) = text
    THEN Some(CHOOSE seq \in SampleSeqs :
                  UserSequence(seq) = text \/ StringSequence(seq) = text)
    ELSE None

\* types.time(str): float(str) of an integer literal (None: ValueError).
ParseTime(text) ==
    IF \E n \in 0..MaxLen : ToString(n) = text
    THEN Some(CHOOSE n \in 0..MaxLen : ToString(n) = text)
    ELSE None

\* types.string.time(time): str() of a float with an integer value
StringTime(time) == ToString(time) \o ".0"

\* The keys of _parsers and _strings that the model covers.
KnownParams == {"sequence", "time"}

\* _strings[param](_parsers[param](spec)): the values and the error
Reconvert(param, text) ==
    IF param \notin KnownParams THEN [values |-> <<>>, raise |-> "KeyError"]
    ELSE IF param = "sequence"
    THEN IF ParseSequence(text) = None
         THEN [values |-> <<>>, raise |-> "ValueError"]
         ELSE [values |-> <<StringSequence(ParseSequence(text)[1])>>,
               raise |-> ""]
    ELSE IF ParseTime(text) = None
         THEN [values |-> <<>>, raise |-> "ValueError"]
         ELSE [values |-> <<StringTime(ParseTime(text)[1])>>, raise |-> ""]

\* _known_commands[param] if param in _known_commands else {}
Knowns(param) == IF param = "sequence" THEN {"length"} ELSE {}

\* tuple(_make_generator(param, spec)), as itertools.product consumes it: the
\* values it yields and the error that ends it.
MakeGenerator(param, spec) ==
    IF ~spec.bang THEN Reconvert(param, spec.words[1])
    ELSE IF Len(spec.words) = 0
    THEN [values |-> <<>>, raise |-> "IndexError"]
    ELSE IF spec.words[1] \notin Knowns(param)
    THEN [values |-> <<>>, raise |-> "ValueError"]
    ELSE IF SequenceLengthRaises(Tail(spec.words))
    THEN [values |-> <<>>, raise |-> "TypeError"]
    ELSE LET r == SequencesOfLength(IntArgs(Tail(spec.words)))
         IN  [values |-> r.items, raise |-> r.raise]

\* A product in which the first pool varies fastest.
RECURSIVE ProductFirstFastest(_, _)
ProductFirstFastest(pools, n) ==
    IF n = 0 THEN << <<>> >>
    ELSE LET shorter == ProductFirstFastest(Tail(pools), n - 1)
             first == pools[1]
         IN  List([m \in 1..(Len(first) * Len(shorter)) |->
                      <<first[((m - 1) % Len(first)) + 1]>>
                          \o shorter[((m - 1) \div Len(first)) + 1]])

\* itertools.product(*iters) over the first n pools: every tuple of the
\* shorter product followed by each value of pool n in turn.
RECURSIVE Product(_, _)
Product(pools, n) ==
    IF n = 0 THEN << <<>> >>
    ELSE LET shorter == Product(pools, n - 1)
             last == pools[n]
         IN  List([m \in 1..(Len(shorter) * Len(last)) |->
                      Append(shorter[((m - 1) \div Len(last)) + 1],
                             last[((m - 1) % Len(last)) + 1])])

\* make_statement(tup)
MakeStatement(pl, i, value) == pl[i][1] \o "=" \o value

\* make_line(spec): ";".join(map(make_statement, enumerate(spec)))
RECURSIVE MakeLineUpTo(_, _, _)
MakeLineUpTo(pl, tup, n) ==
    IF n = 0 THEN ""
    ELSE IF n = 1 THEN MakeStatement(pl, 1, tup[1])
    ELSE MakeLineUpTo(pl, tup, n - 1) \o ";" \o MakeStatement(pl, n, tup[n])

MakeLine(pl, tup) == MakeLineUpTo(pl, tup, Len(tup))

\* The first error among the generators, in the order product consumes them.
RECURSIVE FirstRaise(_, _)
FirstRaise(pl, n) ==
    IF n = 0 THEN ""
    ELSE IF FirstRaise(pl, n - 1) # "" THEN FirstRaise(pl, n - 1)
    ELSE MakeGenerator(pl[n][1], pl[n][2]).raise

\* iters, consumed
Pools(pl) ==
    List([i \in 1..Len(pl) |-> MakeGenerator(pl[i][1], pl[i][2]).values])

\* The specifiers tried.
Specs ==
    {[bang |-> FALSE, words |-> <<UserSequence(<<0, 1>>)>>],
     [bang |-> FALSE, words |-> <<"2">>],
     [bang |-> TRUE, words |-> <<"length", "1">>],
     [bang |-> TRUE, words |-> <<"length", "0", "1">>],
     [bang |-> TRUE, words |-> <<"length", "-1", "1">>],
     [bang |-> TRUE, words |-> <<"length", "x">>],
     [bang |-> TRUE, words |-> <<"width", "1">>],
     [bang |-> TRUE, words |-> <<>>]}

ParamNames == KnownParams \cup {"colour"}

InitExpand ==
    /\ param_list \in {Some(pl) : pl \in SeqsOf(ParamNames \X Specs, 0, MaxParams)}
    /\ expand_status = None
    /\ lines = <<>>
    /\ FilterIdle
    /\ LoopIdle
    /\ TargetIdle
    /\ PrepIdle
    /\ BasisIdle
    /\ SamplerIdle
    /\ ParseIdle
    /\ SeqIdle
    /\ ComposeIdle
    /\ MachineIdle

\* expand(param_list): product consumes every generator before it returns.
CallExpand ==
    /\ expand_status = None
    /\ expand_status' =
        IF FirstRaise(param_list[1], Len(param_list[1])) = "" THEN Some("map")
        ELSE Some(FirstRaise(param_list[1], Len(param_list[1])))
    /\ UNCHANGED <<param_list, lines>>
    /\ UNCHANGED <<filter_vars, loop_vars, target_vars, prep_vars, basis_vars,
                   sampler_vars, parse_vars, seq_vars,
                   compose_vars, machine_vars>>

\* next() on the iterator expand returned.
NextLine ==
    /\ expand_status = Some("map")
    /\ LET pl == param_list[1]
           tuples == Product(Pools(pl), Len(pl))
       IN  IF Len(lines) < Len(tuples)
           THEN /\ lines' = Append(lines, MakeLine(pl, tuples[Len(lines) + 1]))
                /\ UNCHANGED expand_status
           ELSE /\ expand_status' = Some("StopIteration")
                /\ UNCHANGED lines
    /\ UNCHANGED param_list
    /\ UNCHANGED <<filter_vars, loop_vars, target_vars, prep_vars, basis_vars,
                   sampler_vars, parse_vars, seq_vars,
                   compose_vars, machine_vars>>

NextExpand ==
    \/ CallExpand
    \/ NextLine

SpecExpand == InitExpand /\ [][NextExpand]_vars

\* ----------------------------------------------------------- _compose, compose
\* The functions handed to compose, by name, and what each returns.
Funcs == {"inc", "dbl", "sq"}

Apply(f, x) ==
    IF f = "inc" THEN x + 1 ELSE IF f = "dbl" THEN 2 * x ELSE x * x

\* The arguments of a call of compose: first_function is an iterable of
\* functions (iterable = TRUE, first its items) or one function (first its
\* name), more_functions the functions after it, and the keyword left.
ComposeArgs ==
    [iterable : {TRUE}, first : SeqsOf(Funcs, 0, MaxFuncs),
     more : SeqsOf(Funcs, 0, MaxFuncs - 1), left : BOOLEAN]
    \cup
    [iterable : {FALSE}, first : {<<f>> : f \in Funcs},
     more : SeqsOf(Funcs, 0, MaxFuncs - 1), left : BOOLEAN]

\* try: functions = tuple(first_function)
\* except TypeError: functions = first_function, *more_functions
FunctionsTuple(args) ==
    IF args.iterable THEN args.first ELSE args.first \o args.more

\* compose up to its return: the object the partial holds.  A tuple is
\* iterated from its start by every for loop; reversed(functions) is an
\* iterator over the tuple from its end, and `remaining` is how many items it
\* has yet to yield.
Functions(args) ==
    IF args.left
    THEN [reversed |-> TRUE, items |-> FunctionsTuple(args),
          remaining |-> Len(FunctionsTuple(args))]
    ELSE [reversed |-> FALSE, items |-> FunctionsTuple(args),
          remaining |-> Len(FunctionsTuple(args))]

\* The items a for loop over the object gets.
Iterate(funcs) ==
    IF funcs.reversed
    THEN List([i \in 1..funcs.remaining |-> funcs.items[funcs.remaining - i + 1]])
    ELSE funcs.items

\* The object after the for loop: the iterator is exhausted, the tuple is as
\* it was.
AfterIterate(funcs) ==
    IF funcs.reversed THEN [funcs EXCEPT !.remaining = 0] ELSE funcs

\* _compose(funcs, x) over the first n items the loop gets
RECURSIVE ComposeUpTo(_, _, _)
ComposeUpTo(items, n, x) ==
    IF n = 0 THEN x ELSE Apply(items[n], ComposeUpTo(items, n - 1, x))

InitCompose ==
    /\ compose_args \in {Some(a) : a \in ComposeArgs}
    /\ functions = None
    /\ compose_calls = <<>>
    /\ FilterIdle
    /\ LoopIdle
    /\ TargetIdle
    /\ PrepIdle
    /\ BasisIdle
    /\ SamplerIdle
    /\ ParseIdle
    /\ SeqIdle
    /\ ExpandIdle
    /\ MachineIdle

\* compose(first_function, *more_functions, left=left)
Compose ==
    /\ functions = None
    /\ functions' = Some(Functions(compose_args[1]))
    /\ UNCHANGED <<compose_args, compose_calls>>
    /\ UNCHANGED <<filter_vars, loop_vars, target_vars, prep_vars, basis_vars,
                   sampler_vars, parse_vars, seq_vars, expand_vars,
                   machine_vars>>

\* A call of the returned partial: _compose(functions, x)
CallComposed ==
    /\ functions # None
    /\ Len(compose_calls) < MaxCalls
    /\ \E x \in Values :
        LET items == Iterate(functions[1])
        IN  compose_calls' =
                Append(compose_calls,
                       [x |-> x, result |-> ComposeUpTo(items, Len(items), x)])
    /\ functions' = Some(AfterIterate(functions[1]))
    /\ UNCHANGED compose_args
    /\ UNCHANGED <<filter_vars, loop_vars, target_vars, prep_vars, basis_vars,
                   sampler_vars, parse_vars, seq_vars, expand_vars,
                   machine_vars>>

NextCompose ==
    \/ Compose
    \/ CallComposed

SpecCompose == InitCompose /\ [][NextCompose]_vars

\* ------------------------------------------------------------- machine_line
\* A line is held as str.split(";") gives it: a sequence of parts, and a part
\* as part.split("=") gives it: a sequence of sides.  No side holds ';' or '='.
\* Texts without white space around them, and the same with it.
Bare == {"", "state", "sequence", "laser", "time", "colour",
         "{'g0': 1}", "(0, 0.1, 1000)", "2", "x"}

Padded(t) == " " \o t \o " "

\* x.strip()
Strip(s) ==
    IF \E t \in Bare : Padded(t) = s
    THEN CHOOSE t \in Bare : Padded(t) = s
    ELSE IF s = " " THEN "" ELSE s

\* Good pairs for three of the needed keys, in the order a line has them.
GoodPairs ==
    <<<<"state", "{'g0': 1}">>,
      <<"sequence", "(0, 0.1, 1000)">>,
      <<"laser", "(0, 0.1, 1000)">>>>

\* The parts tried after them: a good pair for time with white space around
\* its sides, a pair whose value does not parse, a pair with another key, a
\* blank part, and parts that are no key-value pair.
TailParts ==
    {<<Padded("time"), Padded("2")>>,
     <<"time", "x">>,
     <<"colour", "2">>,
     <<" ">>,
     <<"time">>,
     <<"time", "2", "2">>,
     <<"time", " ">>}

\* The items of seq whose index is in S, in their order.
Pick(seq, S) ==
    LET F[i \in 0..Len(seq)] ==
            IF i = 0 THEN <<>>
            ELSE IF i \in S THEN Append(F[i - 1], seq[i]) ELSE F[i - 1]
    IN  F[Len(seq)]

\* The lines tried: some of the good pairs, then up to MaxParts parts in all.
Lines ==
    {Pick(GoodPairs, S) \o t :
        S \in SUBSET (1..Len(GoodPairs)),
        t \in SeqsOf(TailParts, 0, MaxParts - Len(GoodPairs))}

\* x.strip() != "" on a part: a part of more than one side holds a '='
NotBlank(part) == Len(part) > 1 \/ Strip(part[1]) # ""

\* keyval(part): TRUE when it raises
KeyvalRaises(part) ==
    \/ Len(part) # 2
    \/ \E i \in 1..Len(part) : Strip(part[i]) = ""

\* keyval(part): the sides it returns
Keyval(part) == List([i \in 1..Len(part) |-> Strip(part[i])])

\* dict(pairs): for each key the value of its last pair
Dict(pairs) ==
    [k \in {pairs[i][1] : i \in 1..Len(pairs)} |->
        pairs[CHOOSE i \in 1..Len(pairs) :
                 /\ pairs[i][1] = k
                 /\ \A j \in (i + 1)..Len(pairs) : pairs[j][1] # k][2]]

\* _needed_params
NeededParams == {"state", "sequence", "laser", "time"}

\* A check that only looks for missing keys.
KeyCheckMissingOnly(got) == NeededParams \ got = {}

\* Neither branch of the if on `got` raises: no needed key is missing and
\* no other key is there.
KeyCheck(got) ==
    /\ NeededParams \ got = {}
    /\ got \ NeededParams = {}

\* types.state, types.sequence, types.laser and types.time on the texts
\* tried: TRUE when the parser returns, FALSE when it raises ValueError.
Parses(key, text) ==
    IF key = "state" THEN text = "{'g0': 1}"
    ELSE IF key = "sequence" THEN text = "(0, 0.1, 1000)"
    ELSE IF key = "laser" THEN text = "(0, 0.1, 1000)"
    ELSE ParseTime(text) # None

\* machine_line(str)
MachineLine(parts) ==
    LET kept == SelectSeq(parts, NotBlank)
    IN  IF \E i \in 1..Len(kept) : KeyvalRaises(kept[i])
        THEN <<"ValueError", "keyval">>
        ELSE LET dict_ == Dict(List([i \in 1..Len(kept) |-> Keyval(kept[i])]))
             IN  IF ~KeyCheck(DOMAIN dict_) THEN <<"ValueError", "keys">>
                 ELSE IF \E k \in DOMAIN dict_ : ~Parses(k, dict_[k])
                 THEN <<"ValueError", "types">>
                 ELSE <<"RunParameters", dict_>>

InitMachine ==
    /\ machine_str \in {Some(l) : l \in Lines}
    /\ machine_result = None
    /\ FilterIdle
    /\ LoopIdle
    /\ TargetIdle
    /\ PrepIdle
    /\ BasisIdle
    /\ SamplerIdle
    /\ ParseIdle
    /\ SeqIdle
    /\ ExpandIdle
    /\ ComposeIdle

CallMachineLine ==
    /\ machine_result = None
    /\ machine_result' = MachineLine(machine_str[1])
    /\ UNCHANGED machine_str
    /\ UNCHANGED <<filter_vars, loop_vars, target_vars, prep_vars, basis_vars,
                   sampler_vars, parse_vars, seq_vars, expand_vars,
                   compose_vars>>

NextMachine == CallMachineLine

SpecMachine == InitMachine /\ [][NextMachine]_vars

\* ================================================================== claims
\* Helpers of the claims' formulas.
\* The call that received the first successful outcome (0 when there is none).
FirstSuccessful ==
    LET S == {i \in 1..Len(calls) : calls[i].outcome.success}
    IN  IF S = {} THEN 0 ELSE CHOOSE i \in S : \A j \in S : i <= j

\* The branch a non-improving successful outcome takes.
FailureBranch == IF failure_callback THEN {"failure_callback"} ELSE {}

\* C1: with the default comparator a successful outcome whose value equals
\* the recorded best value does not fire the success callback and fires the
\* failure callback when there is one.
C1_TiesAreNotImprovements ==
    \A i \in 1..Len(calls) :
        LET c == calls[i]
        IN  (/\ compare = DefaultCompare
             /\ c.outcome.success
             /\ c.best_before = Some(c.outcome.fun))
            => /\ "success_callback" \notin c.fired
               /\ failure_callback => "failure_callback" \in c.fired

\* C2 as stated: a call with a time limit of 0 returns after exactly one
\* attempt (one draw, one minimisation, one callback).
C2_ZeroLimitOneAttempt ==
    (pc = "done" /\ time_limit = 0)
        => (draws = 1 /\ Len(results) = 1 /\ Len(calls) = 1)

\* C2, amended: a call with a time limit of 0 makes no attempt at all: the
\* budget is tested before the first attempt too, so nothing is drawn,
\* minimised or passed to the callback, and the call only starts, tests and
\* returns.
C2_ZeroLimitNoAttempt ==
    time_limit = 0
        => /\ draws = 0
           /\ results = <<>>
           /\ calls = <<>>
           /\ pc \in {"start", "check", "done"}

C2_Witness == pc = "done" /\ time_limit = 0 /\ draws = 0 /\ calls = <<>>

\* C3: an outcome whose success flag is false fires neither callback and
\* leaves the recorded best value as it was, whatever its value and the
\* filter's state.
C3_FailedOutcomeIgnored ==
    /\ \A i \in 1..Len(calls) :
           ~calls[i].outcome.success
               => /\ calls[i].fired = {}
                  /\ calls[i].best_after = calls[i].best_before
    /\ (Len(calls) > 0 /\ ~calls[Len(calls)].outcome.success)
           => best_value = calls[Len(calls)].best_before

\* A failed outcome that would have been an improvement had it converged.
C3_Witness ==
    \E i \in 1..Len(calls) :
        /\ ~calls[i].outcome.success
        /\ calls[i].best_before # None
        /\ Compare(compare, calls[i].outcome.fun, calls[i].best_before[1])
        /\ calls[i].outcome.fun # calls[i].best_before[1]

\* C4: a successful outcome that is the first or compares as better becomes
\* the best value and fires only the success callback; any other successful
\* outcome leaves the best value and fires only the failure callback, or
\* nothing when there is none.  Never do both callbacks fire.
C4_SuccessfulOutcomeRouting ==
    \A i \in 1..Len(calls) :
        LET c == calls[i]
        IN  /\ c.fired # {"success_callback", "failure_callback"}
            /\ c.outcome.success =>
                  IF \/ c.best_before = None
                     \/ Compare(compare, c.outcome.fun, c.best_before[1])
                  THEN /\ c.best_after = Some(c.outcome.fun)
                       /\ c.fired = {"success_callback"}
                  ELSE /\ c.best_after = c.best_before
                       /\ c.fired = FailureBranch
            /\ i = Len(calls) => best_value = c.best_after

\* An improvement over a recorded value and a non-improvement, both seen.
C4_Witness ==
    \E i, j \in 1..Len(calls) :
        /\ calls[i].best_before # None
        /\ calls[i].fired = {"success_callback"}
        /\ calls[j].outcome.success
        /\ calls[j].fired = FailureBranch

\* C5: the recorded best value only improves: a change from v to w happens
\* only when compare(w, v) holds, a recorded value never goes back to none,
\* and with the default comparator the value never increases.
C5_BestValueMonotone ==
    [][ best_value # None =>
          /\ best_value' # None
          /\ best_value' # best_value
                 => Compare(compare, best_value'[1], best_value[1])
          /\ compare = DefaultCompare => best_value'[1] <= best_value[1]
      ]_vars

\* A recorded value replaced by another one.
C5_Witness ==
    \E i \in 1..Len(calls) :
        /\ calls[i].best_before # None
        /\ calls[i].best_after # calls[i].best_before

\* C6: a supplied initial_value is the first best value, so the first
\* successful outcome fires the success callback only if it compares as
\* better than initial_value and takes the failure branch otherwise; without
\* an initial_value the first successful outcome always becomes the best and
\* fires the success callback.
C6_InitialValueIsFirstBest ==
    LET i == FirstSuccessful
    IN  i # 0 =>
          LET c == calls[i]
          IN  IF initial_value = None
              THEN /\ c.fired = {"success_callback"}
                   /\ c.best_after = Some(c.outcome.fun)
              ELSE IF Compare(compare, c.outcome.fun, initial_value[1])
              THEN /\ c.fired = {"success_callback"}
                   /\ c.best_after = Some(c.outcome.fun)
              ELSE /\ c.fired = FailureBranch
                   /\ c.best_after = initial_value

\* A first successful outcome, after a failed one, that does not beat the
\* initial value.
C6_Witness ==
    /\ initial_value # None
    /\ FirstSuccessful > 1
    /\ ~Compare(compare, calls[FirstSuccessful].outcome.fun, initial_value[1])
    /\ calls[FirstSuccessful].fired = {"failure_callback"}

\* C7: attempts are strictly sequential: one draw, one minimisation from
\* that draw and one callback with that minimisation's result per iteration;
\* the callback of an attempt is over before the next draw; outside an
\* attempt the callbacks made equal the minimisations completed, and the
\* outcomes reach the callback in attempt order.
C7_AttemptsSequential ==
    /\ pc \in {"start", "check", "gen", "done"}
           => draws = Len(results) /\ Len(results) = Len(calls)
    /\ pc = "minimize"
           => draws = Len(results) + 1 /\ Len(results) = Len(calls)
    /\ pc = "callback"
           => draws = Len(results) /\ Len(results) = Len(calls) + 1
    /\ \A i \in 1..Len(results) : results[i].x = i
    /\ \A i \in 1..Len(calls) :
           i <= Len(results) /\ calls[i].outcome = results[i]

\* A call that returned after several attempts.
C7_Witness == pc = "done" /\ Len(calls) >= 2 /\ draws = Len(calls)

\* C8: a minimisation that did not converge does not stop the loop: its
\* result goes to the callback with the success flag false, the loop returns
\* to its test, and the next sample is drawn when the budget has not elapsed.
C8_FailureDoesNotStopLoop ==
    [][ /\ (pc = "minimize" /\ Len(results') = Len(results) + 1
              /\ ~results'[Len(results')].success)
           => pc' = "callback"
        /\ (pc = "callback" /\ ~results[Len(results)].success)
           => /\ pc' = "check"
              /\ Len(calls') = Len(calls) + 1
              /\ calls'[Len(calls')].outcome = results[Len(results)]
              /\ ~calls'[Len(calls')].outcome.success
        /\ (pc = "check" /\ Len(calls) > 0
              /\ ~calls[Len(calls)].outcome.success
              /\ clock - start < time_limit)
           => pc' = "gen"
      ]_vars

\* A result that did not converge reached the callback, and a later sample
\* was drawn.
C8_Witness ==
    \E i \in 1..Len(calls) :
        /\ ~calls[i].outcome.success
        /\ calls[i].outcome = results[i]
        /\ draws > i

\* C9: the budget is tested only between attempts.  No attempt is started
\* at a moment when the elapsed time is already >= time_limit; an attempt in
\* flight is never interrupted: it goes from the draw to the minimisation to
\* the callback and back to the loop test whatever the clock reads, and the
\* call returns from the loop test alone, when the elapsed time it reads is
\* >= time_limit, with every attempt it started complete; and therefore the
\* running time of a call that made an attempt exceeds time_limit by at most
\* the duration of one attempt, the last (minimisation plus callback).
C9_BudgetCheckedBetweenAttempts ==
    /\ [](/\ pc \in {"gen", "minimize", "callback"}
               => attempt_start - start < time_limit
          /\ pc = "done"
               => /\ draws = Len(results) /\ Len(results) = Len(calls)
                  /\ clock - start >= time_limit
                  /\ draws > 0 =>
                      /\ attempt_start - start < time_limit
                      /\ (clock - start) - time_limit
                             <= clock - attempt_start)
    /\ [][/\ pc = "gen" => pc' = "minimize"
          /\ pc = "minimize" => pc' = "callback"
          /\ pc = "callback" => pc' = "check"
          /\ pc' = "done" => pc = "check"
          /\ pc' = "gen" => pc = "check" /\ clock - start < time_limit
          /\ start' # start => pc = "start"
          /\ time_limit' = time_limit]_vars

\* A call that returned past its budget.
C9_Witness == pc = "done" /\ draws > 0 /\ clock - start > time_limit

\* C10: both objective functions return an infidelity in [0, 1]: exactly 1
\* when every basis vector ends entirely in its wrong branch and exactly 0
\* when every one ends entirely in its right branch.
C10_InfidelityInUnitInterval ==
    infid # None =>
        LET v == infid[1].value
        IN  /\ 0 <= v.num /\ v.num <= v.den
            /\ (\A i \in 1..nstates : Projected(ground, i) = PopUnits)
                   => v.num = v.den
            /\ (\A i \in 1..nstates : Projected(ground, i) = 0)
                   => v.num = 0

\* C11: the first basis vector is paired with the ground projector and every
\* other one with the excited projector: the infidelity is zero exactly when
\* the target ends entirely in the excited branch and every other basis
\* vector entirely in the ground branch, and the target's ground population
\* alone is what a basis of one vector returns.
C11_TargetPairedWithGround ==
    infid # None =>
        LET v == infid[1].value
        IN  /\ v.num = 0 <=> /\ ground[1] = 0
                             /\ \A i \in 2..nstates : ground[i] = PopUnits
            /\ nstates = 1 => v.num = ground[1]
            /\ (\A i \in 2..nstates : ground[i] = PopUnits)
                   => v.num = ground[1]

\* A perfect sequence for a basis of several vectors.
C11_Witness ==
    /\ infid # None
    /\ nstates >= 2
    /\ infid[1].value.num = 0
    /\ ground[1] = 0
    /\ \A i \in 2..nstates : ground[i] = PopUnits

\* The highest level among the labels of the target specification.
HighestLabelLevel ==
    LET ls == {LevelOf(run_params[1].state[i][1]) : i \in 1..Len(run_params[1].state)}
    IN  CHOOSE m \in ls : \A l \in ls : l <= m

RECURSIVE AbsOrderTotal(_, _)
\* The sum of the absolute values of the first n orders of seq.
AbsOrderTotal(seq, n) ==
    IF n = 0 THEN 0
    ELSE AbsOrderTotal(seq, n - 1) + (IF seq[n] < 0 THEN 0 - seq[n] ELSE seq[n])

\* C12: ns is 1 + the highest level among the labels of the specification +
\* the sum of the absolute pulse orders, for a dict and for a list of pairs,
\* so every level the pulses can populate from the target is below ns.
C12_TruncationSize ==
    ns # None =>
        /\ ns[1] = 1 + HighestLabelLevel
                     + AbsOrderTotal(run_params[1].sequence,
                                     Len(run_params[1].sequence))
        /\ \A l \in levels : l < ns[1]

\* A whole sequence with a red sideband applied to a list of pairs whose
\* highest label is not the last one, populating the level just below ns.
C12_Witness ==
    /\ ns # None
    /\ ~run_params[1].is_dict
    /\ applied = Len(run_params[1].sequence)
    /\ applied >= 2
    /\ \E i \in 1..applied : run_params[1].sequence[i] < 0
    /\ Len(run_params[1].state) >= 2
    /\ LevelOf(run_params[1].state[1][1]) = HighestLabelLevel
    /\ ns[1] - 1 \in levels


\* The populated labels of the input state, counted from the state itself.
PopulatedLabels == {i \in 1..Len(state[1]) : state[1][i] # CZero}

\* The j-th populated label in label order.
NthPopulated(j) ==
    CHOOSE i \in PopulatedLabels :
        Cardinality({m \in PopulatedLabels : m <= i}) = j

\* C13: for a state with k >= 1 populated labels, linear_independent_set
\* returns exactly k-1 elementary vectors, one for each populated label after
\* the first in label order, and orthonormal_basis returns exactly k vectors;
\* for k = 1 no additional vector is built and the basis is the single vector
\* along the target.
C13_BasisSizes ==
    LET k == Cardinality(PopulatedLabels)
    IN  /\ k >= 1
        /\ lin_set # None =>
            /\ Len(lin_set[1]) = k - 1
            /\ \A j \in 1..(k - 1) :
                /\ lin_set[1][j].norm2 = 1
                /\ \A i \in 1..Len(state[1]) :
                    lin_set[1][j].amps[i] =
                        IF i = NthPopulated(j + 1) THEN COne ELSE CZero
            /\ k = 1 => lin_set[1] = <<>>
        /\ basis # None =>
            /\ basis[1] = "return"
            /\ Len(basis[2]) = k
            /\ k = 1 => Aligned(state[1], basis[2][1])

\* Both functions returned for a state with every label populated.
C13_Witness ==
    /\ Cardinality(PopulatedLabels) = Dim
    /\ lin_set # None
    /\ Len(lin_set[1]) = Dim - 1
    /\ basis # None
    /\ basis[1] = "return"
    /\ Len(basis[2]) = Dim

\* A ket of norm exactly 1.
UnitNorm(ket) == ket.norm2 > 0 /\ NormSq(ket.amps) = ket.norm2

\* The ket is the normalised state s times a phase: it has norm 1 and its
\* amplitudes are a complex multiple of those of s (c s[i] = d ket[i] for
\* the c, d read off a populated label of s).
NormalisedUpToPhase(s, ket) ==
    /\ UnitNorm(ket)
    /\ \E m \in 1..Len(s) :
        /\ s[m] # CZero
        /\ ket.amps[m] # CZero
        /\ \A i \in 1..Len(s) :
            CMul(ket.amps[m], s[i]) = CMul(s[m], ket.amps[i])

\* C14: the vectors orthonormal_basis returns are pairwise orthogonal and of
\* unit norm (exactly, so within 1e-8), and the first of them is the
\* normalised input state up to a global phase; the call ends in the
\* assertion's failure, returning no basis, exactly when the first vector it
\* built is not the normalised input state up to a phase.
C14_Orthonormal ==
    basis # None =>
        /\ basis[1] = "return" =>
            /\ \A i, j \in 1..Len(basis[2]) :
                i # j => Inner(basis[2][i].amps, basis[2][j].amps) = CZero
            /\ \A i \in 1..Len(basis[2]) : UnitNorm(basis[2][i])
            /\ NormalisedUpToPhase(state[1], basis[2][1])
        /\ basis[1] # "return" =>
            /\ basis = <<"AssertionError">>
            /\ \E rounded \in BOOLEAN :
                   ~NormalisedUpToPhase(state[1],
                                        BasisOut(state[1], rounded)[1])

\* A basis of more than one vector was returned for a state with complex
\* amplitudes that is not normalised as it comes, every vector of the basis
\* being amplitudes divided by a norm other than 1.
C14_Witness ==
    /\ basis # None
    /\ basis[1] = "return"
    /\ Len(basis[2]) >= 2
    /\ \E i \in 1..Len(state[1]) : state[1][i][2] # 0
    /\ NormSq(state[1]) > 1
    /\ \A i \in 1..Len(basis[2]) : basis[2][i].norm2 > 1


\* The maximum of the duration of pulse i in units of 2 pi, from the inputs:
\* the periods over the laser's frequency of the (0, |order_i|) coupling.
DurationBelow(s, i) ==
    s.num * laser[1][Abs(sidebands[1][i])] <
        (IF nperiods = None THEN 3 ELSE nperiods[1]) * s.den

\* C15: a vector the _make_random sampler returns has length 2 x |sequence|;
\* the component of pulse i at the even (0-based) index 2i is a duration in
\* [0, nperiods * 2 pi / rabi(|order_i|)), the component at 2i+1 is a phase in
\* [0, 2 pi), and nperiods is 3 when omitted.
C15_SampleRanges ==
    (sample # None /\ caller = Some("make_random")) =>
        /\ Len(sample[1]) = 2 * Len(sidebands[1])
        /\ \A i \in 1..Len(sidebands[1]) :
            LET duration == sample[1][2 * i - 1]
                phase == sample[1][2 * i]
            IN  /\ duration.den > 0
                /\ duration.num >= 0
                /\ DurationBelow(duration, i)
                /\ phase.den > 0
                /\ phase.num >= 0
                /\ phase.num < phase.den

\* A sampler built with nperiods omitted returned a vector for a sequence of
\* two pulses of different Rabi frequency, neither component of the second
\* pulse at zero.
C15_Witness ==
    /\ sample # None
    /\ caller = Some("make_random")
    /\ nperiods = None
    /\ Len(sidebands[1]) = 2
    /\ laser[1][Abs(sidebands[1][1])] # laser[1][Abs(sidebands[1][2])]
    /\ sample[1][3].num > 0
    /\ sample[1][4].num > 0

\* The table lacks an entry for the absolute order of some pulse.
MissingOrder ==
    \E i \in 1..Len(sidebands[1]) :
        \A x \in DOMAIN rabi[1] : x # Abs(sidebands[1][i])

\* The sideband of the pass of the loop the generator is in, or was in when
\* it raised.
ReachedSideband == (Len(gen[1].yielded) \div 2) + 1

\* C16: the generator of the maxima ends in an error when it reaches a pulse
\* whose absolute order has no entry in the table, and only then: the maxima
\* it delivered are those of pulses that have an entry, it ends normally only
\* with an entry for every pulse, and no sample is drawn from it; and the
\* table _make_random builds has an entry for every absolute order, so the
\* error never comes through _make_random, which always gets its list.
C16_MissingCoupling ==
    /\ max # None =>
        /\ caller = Some("make_random")
        /\ ~MissingOrder
        /\ max[1] = "list"
    /\ gen # None =>
        /\ max = None
        /\ sample = None
        /\ gen[1].status \in {"created", "suspended", "KeyError",
                              "StopIteration"}
        /\ gen[1].status = "KeyError" =>
            /\ Len(gen[1].yielded) % 2 = 0
            /\ ReachedSideband <= Len(sidebands[1])
            /\ Abs(sidebands[1][ReachedSideband]) \notin DOMAIN rabi[1]
        /\ gen[1].status = "StopIteration" =>
            /\ ~MissingOrder
            /\ Len(gen[1].yielded) = 2 * Len(sidebands[1])
        /\ \A i \in 1..((Len(gen[1].yielded) + 1) \div 2) :
            Abs(sidebands[1][i]) \in DOMAIN rabi[1]

\* The generator delivered the maxima of a first pulse and raised at a
\* negative sideband whose order the table lacks.
C16_Witness ==
    /\ gen # None
    /\ gen[1].status = "KeyError"
    /\ caller = Some("direct")
    /\ Len(gen[1].yielded) = 2
    /\ sidebands[1][2] < 0
    /\ Abs(sidebands[1][2]) \notin DOMAIN rabi[1]


\* The groups yielded so far, one after the other.
RECURSIVE Flatten(_, _)
Flatten(groups, n) ==
    IF n = 0 THEN <<>> ELSE Flatten(groups, n - 1) \o groups[n]

\* The first n statements of the stream as (key, value) pairs.
StatementPairs(n) ==
    [i \in 1..n |-> <<statements[i].key, statements[i].value>>]

\* The statements the loop body finished without raising.
Accepted ==
    IF status = "ValueError" /\ error # "eof" THEN consumed - 1 ELSE consumed

\* C17: each group key_value_sets yields holds every key of keys exactly
\* once, with its pairs in the order of the statements; at a yield the
\* yielded groups one after the other are exactly the statements taken so
\* far, the last of them being the accumulator; once the generator goes on
\* after a yield the accumulator is reset: the groups followed by the
\* accumulator are the statements taken so far, and the accumulator never
\* holds a complete group, so the next group starts empty.
C17_ConsecutiveGroups ==
    /\ \A g \in 1..Len(yielded) :
        /\ KeysOf(yielded[g]) = keys
        /\ Len(yielded[g]) = Cardinality(keys)
    /\ status = "suspended" =>
        /\ Flatten(yielded, Len(yielded)) = StatementPairs(Accepted)
        /\ Len(yielded) > 0
        /\ params = yielded[Len(yielded)]
    /\ status # "suspended" =>
        /\ Flatten(yielded, Len(yielded)) \o params = StatementPairs(Accepted)
        /\ keys # {} => KeysOf(params) # keys
        /\ Len(params) < Cardinality(keys) \/ keys = {}

\* Two groups were yielded, the second repeating the keys of the first in
\* another order, and nothing is pending.
C17_Witness ==
    /\ Len(yielded) = 2
    /\ Cardinality(keys) = 2
    /\ yielded[1][1][1] # yielded[2][1][1]
    /\ params = <<>>
    /\ consumed = 4

\* The keys of the statements taken into the group being built before the
\* statement the loop took last.
PendingKeysBefore(last) ==
    {statements[i].key :
        i \in (Len(Flatten(yielded, Len(yielded))) + 1)..(last - 1)}

\* C18: key_value_sets ends in ValueError exactly when a statement's key is
\* not in keys, when a statement's key is already in the group being built,
\* or when the statements run out with a non-empty group pending; every
\* statement met without those is accepted, and statements running out with
\* nothing pending end the generator without error.
C18_ThreeErrors ==
    /\ status \in {"running", "suspended", "StopIteration", "ValueError"}
    /\ status = "ValueError" <=> error \in {"unknown", "duplicate", "eof"}
    /\ error = "unknown" =>
        /\ statements[consumed].key \notin keys
        /\ statements[consumed].key \notin PendingKeysBefore(consumed)
    /\ error = "duplicate" =>
        statements[consumed].key \in PendingKeysBefore(consumed)
    /\ error = "eof" =>
        /\ consumed = Len(statements)
        /\ PendingKeysBefore(consumed + 1) # {}
    /\ status = "StopIteration" =>
        /\ consumed = Len(statements)
        /\ PendingKeysBefore(consumed + 1) = {}
    /\ \A i \in 1..Accepted :
        /\ statements[i].key \in keys
        /\ i > Len(Flatten(yielded, Len(yielded))) =>
            statements[i].key \notin PendingKeysBefore(i)

\* The statements ran out in the middle of the second group.
C18_Witness ==
    /\ status = "ValueError"
    /\ error = "eof"
    /\ Len(yielded) = 1
    /\ Len(params) = 1


\* The sequences of n pulses over the orders 0, -1 and 1 with no two adjacent
\* pulses equal.
ValidSeqs(n) ==
    {s \in [1..n -> {0, -1, 1}] : \A i \in 1..(n - 1) : s[i] # s[i + 1]}

\* How many there are: 3 * 2^(n-1) for n >= 1, and the empty one for n = 0.
RECURSIVE ValidCount(_, _)
ValidCount(lo, hi) ==
    IF hi < lo THEN 0
    ELSE ValidCount(lo, hi - 1)
         + (IF hi >= 1 THEN 3 * 2 ^ (hi - 1) ELSE IF hi = 0 THEN 1 ELSE 0)

\* C20: _sequences_of_length(start, stop) yields exactly the sequences over
\* the orders 0, -1 and 1 whose length is between start and stop (start alone
\* when stop is omitted) and that have no two adjacent pulses equal: what it
\* yields is always one of them, never twice, and when the generator has ended
\* it has yielded every one of them, 3 * 2^(n-1) for each length n >= 1.
C20_AllowedSequencesOnce ==
    (seq_status # None /\ seq_status # Some("TypeError")) =>
        LET args == IntArgs(length_args[1])
            lo == args[1]
            hi == IF Len(args) = 1 THEN args[1] ELSE args[2]
            expected == {StringSequence(s) :
                            s \in UNION {ValidSeqs(n) :
                                            n \in {m \in lo..hi : m >= 0}}}
        IN  /\ \A i \in 1..Len(seq_out) : seq_out[i] \in expected
            /\ \A i, j \in 1..Len(seq_out) : seq_out[i] = seq_out[j] => i = j
            /\ seq_status # Some("running") =>
                /\ {seq_out[i] : i \in 1..Len(seq_out)} = expected
                /\ Len(seq_out) = ValidCount(lo, hi)


\* The values each parameter of the list generates.
Generated ==
    List([p \in 1..Len(param_list[1]) |->
             MakeGenerator(param_list[1][p][1], param_list[1][p][2]).values])

RECURSIVE CountProduct(_, _)
CountProduct(pools, n) ==
    IF n = 0 THEN 1 ELSE CountProduct(pools, n - 1) * Len(pools[n])

\* The largest of the counts.
LargestCount(pools) ==
    CHOOSE c \in {Len(pools[p]) : p \in 1..Len(pools)} :
        \A p \in 1..Len(pools) : Len(pools[p]) <= c

\* One index for each parameter: a combination of the generated values.
Combinations(pools) ==
    {t \in [1..Len(pools) -> 1..LargestCount(pools)] :
        \A p \in 1..Len(pools) : t[p] <= Len(pools[p])}

\* u comes before t in a nest of loops whose outer-most loop is the first
\* parameter.
NestedBefore(u, t) ==
    \E p \in 1..Len(u) :
        /\ u[p] < t[p]
        /\ \A q \in 1..(p - 1) : u[q] = t[q]

\* The k-th combination the nest of loops reaches.
NthCombination(combs, k) ==
    CHOOSE t \in combs :
        Cardinality({u \in combs : NestedBefore(u, t)}) = k - 1

\* 'key=value' for the first n parameters of combination t, joined by ';'.
RECURSIVE LineOf(_, _, _)
LineOf(pools, t, n) ==
    IF n = 0 THEN ""
    ELSE (IF n = 1 THEN "" ELSE LineOf(pools, t, n - 1) \o ";")
         \o param_list[1][n][1] \o "=" \o pools[n][t[n]]

\* C19: the iterator expand returns yields one line for every combination of
\* the values generated for each parameter, as many as the product of the
\* counts, in the order of a nest of loops with the first parameter of
\* param_list outer-most and the last inner-most, each line the parameters'
\* 'key=value' joined by ';' in the order of param_list.  Stated of the line
\* yielded last, which every line once was.
C19_NestedLoopLines ==
    (expand_status = Some("map") \/ expand_status = Some("StopIteration")) =>
        LET pools == Generated
            combs == Combinations(pools)
            total == CountProduct(pools, Len(pools))
        IN  /\ Len(lines) <= total
            /\ Len(lines) > 0 =>
                lines[Len(lines)] =
                    LineOf(pools, NthCombination(combs, Len(lines)), Len(pools))
            /\ expand_status = Some("StopIteration") => Len(lines) = total

\* Two parameters generating three and four values, and all twelve lines
\* yielded.
C19_Witness ==
    /\ expand_status = Some("StopIteration")
    /\ Len(param_list[1]) = 2
    /\ Len(Generated[1]) = 3
    /\ Len(Generated[2]) = 4
    /\ Len(lines) = 12


\* The functions the composition is of: the items of the iterable, or the
\* first function and the ones after it.
Composed ==
    IF compose_args[1].iterable THEN compose_args[1].first
    ELSE compose_args[1].first \o compose_args[1].more

\* f_n(... f_2(f_1(x))): the first function applied first.
RECURSIVE RightComposition(_, _, _)
RightComposition(fs, n, x) ==
    IF n = 0 THEN x ELSE Apply(fs[n], RightComposition(fs, n - 1, x))

\* f_1(f_2(... f_n(x))), from f_k on: the last function applied first.
RECURSIVE LeftComposition(_, _, _)
LeftComposition(fs, k, x) ==
    IF k > Len(fs) THEN x ELSE Apply(fs[k], LeftComposition(fs, k + 1, x))

\* C21: the function compose returns gives g(f(x)) for compose(f, g), f(g(x))
\* for compose(f, g, left=True), and for an iterable of functions the
\* composition of all of them in the corresponding order: every call of it
\* returns that value.
C21_CompositionOrder ==
    compose_calls # None =>
        \A c \in 1..Len(compose_calls) :
            compose_calls[c].result =
                IF compose_args[1].left
                THEN LeftComposition(Composed, 1, compose_calls[c].x)
                ELSE RightComposition(Composed, Len(Composed),
                                      compose_calls[c].x)

\* C24: the function compose returns is reusable: two calls of it with the
\* same argument return the same result, whatever was called before, with
\* left=False and with left=True.
C24_Reusable ==
    compose_calls # None =>
        \A c, d \in 1..Len(compose_calls) :
            compose_calls[c].x = compose_calls[d].x =>
                compose_calls[c].result = compose_calls[d].result


\* The loop is inside an attempt: in a call that has not returned.
InAttempt == pc \in {"gen", "minimize", "callback"}

\* C23: with a clock that advances by a positive amount in every attempt,
\* minimise_over_time returns after finitely many attempts unless a single
\* attempt never returns: every behaviour either reaches the return or stays
\* for ever inside one call of an attempt.
C23_Terminates == <>(pc = "done") \/ <>[]InAttempt

\* The loop returned after two attempts.
C23_Witness == pc = "done" /\ draws = 2 /\ Len(calls) = 2 /\ time_limit = 2


\* The parts of the line that are not blank.
NonBlankParts ==
    {i \in 1..Len(machine_str[1]) :
        \E j \in 1..Len(machine_str[1][i]) :
            Strip(machine_str[1][i][j]) # "" \/ Len(machine_str[1][i]) > 1}

\* Part i is a 'key=value' pair: one '=', and two sides that are not empty.
IsPair(i) ==
    /\ Len(machine_str[1][i]) = 2
    /\ Strip(machine_str[1][i][1]) # ""
    /\ Strip(machine_str[1][i][2]) # ""

\* The keys of the line.
LineKeys == {Strip(machine_str[1][i][1]) : i \in NonBlankParts}

\* C22: machine_line accepts a line only when its set of keys is exactly
\* state, sequence, laser and time; it raises ValueError when one of the four
\* is missing, when another key is present, or when a part that is not blank
\* is not a 'key=value' pair with one '=' and two non-empty sides; blank parts
\* do not count.
C22_ExactKeys ==
    machine_result # None =>
        LET needed == {"state", "sequence", "laser", "time"}
        IN  /\ machine_result[1] \in {"RunParameters", "ValueError"}
            /\ machine_result[1] = "RunParameters" =>
                /\ LineKeys = needed
                /\ \A i \in NonBlankParts : IsPair(i)
            /\ (\E k \in needed : k \notin LineKeys) =>
                machine_result[1] = "ValueError"
            /\ (\E k \in LineKeys : k \notin needed) =>
                machine_result[1] = "ValueError"
            /\ (\E i \in NonBlankParts : ~IsPair(i)) =>
                machine_result[1] = "ValueError"

\* A line of the four pairs and a blank part was accepted.
C22_Witness ==
    /\ machine_result # None
    /\ machine_result[1] = "RunParameters"
    /\ Len(machine_str[1]) = 5
    /\ \E i \in 1..5 : machine_str[1][i] = <<" ">>

=============================================================================
